---- MODULE Spec2Model ----
(***************************************************************************)
(* The survey store of the edge service: POST /responses, GET /responses,  *)
(* GET /responses/stats and DELETE /responses/:name over one Deno KV       *)
(* store, keyed ["responses", timestamp, name]; and its chat relay, POST   *)
(* /chat, which streams an upstream completion to the client as events.    *)
(*                                                                         *)
(* Spec handles the store requests one at a time, each handler as one      *)
(* step.  SpecConc runs a DELETE handler await by await, interleaved with  *)
(* writes; SpecMixed adds lists and stats, SpecTwo a second DELETE         *)
(* handler.  SpecChat runs the chat handler await by await; SpecChatLive   *)
(* adds that every await settles.                                          *)
(***************************************************************************)
EXTENDS Integers, Sequences, FiniteSets, TLC

\* ------------------------------------------------------------------ bounds
MaxTime == 2
MaxRecords == 3
MaxLimit == 2
MaxOffset == 1
\* Entries one read of a prefix scan returns (a scan of a larger store takes
\* several reads, each of the store as it is then).
BatchSize == 2
\* The chunks an upstream stream yields at most.
MaxFragments == 3

\* ------------------------------------------------------- program constants
DefaultLimit == 100
DefaultOffset == 0
DefaultSince == 0
\* IEEE +Infinity of stats.timeRange.first: above every timestamp.
Infinity == 1000000

\* ------------------------------------------------------------ JSON values
\* An optional value (a query parameter, a JSON field that may be missing,
\* a JSON null in a response body) is the empty set or a singleton.
Absent == {}
Some(v) == {v}
Get(o) == CHOOSE v \in o : TRUE

\* Participant names in Deno KV's order of string key parts (bytewise).
NameOrder == <<"", "a", "b">>
Names == {NameOrder[i] : i \in 1..Len(NameOrder)}
NameRank(n) == CHOOSE i \in 1..Len(NameOrder) : NameOrder[i] = n

\* The name of a request body: missing (undefined, not a valid key part) or
\* a string.
BodyNames == {Absent} \cup {Some(n) : n \in Names}

\* The "responses" member of a POST body, by JavaScript type.
NonObjects == {[type |-> t, teachLLMs |-> Absent, syntheticStudents |-> Absent] :
                 t \in {"undefined", "null", "string"}}
EmptyObject == [type |-> "object", teachLLMs |-> Absent, syntheticStudents |-> Absent]
Objects == {EmptyObject,
            [type |-> "object", teachLLMs |-> Some("x"), syntheticStudents |-> Some("y")]}
BodyResponses == NonObjects \cup Objects

\* A check that forgets that null is falsy.
FalsyUndefinedOnly(v) == v.type = "undefined"

\* !responses
Falsy(v) == v.type \in {"undefined", "null"}
\* typeof responses
TypeOf(v) == IF v.type = "null" THEN "object" ELSE v.type
\* field || ""
OrEmpty(f) == IF f = Absent \/ f = Some("") THEN "" ELSE Get(f)

\* ------------------------------------------------------------------ state
VARIABLES kv, now, last, del, chat
vars == <<kv, now, last, del, chat>>

\* kv: the store, a function from keys <<"responses", timestamp, name>> to
\* OnboardingResponse values.  now: Date.now().  last: the response of the
\* request handled last, with the request it answers.  del: the DELETE
\* requests in flight, each with the locals of its handler.  chat: the
\* POST /chat request in flight, with its upstream call and outbound stream.

\* A key that leaves the timestamp out (a store keyed by name alone).
KeyByNameOnly(t, n) == <<"responses", 0, n>>
Key(t, n) == <<"responses", t, n>>

\* Deno KV orders keys part by part: numbers by value, strings bytewise.
KeyLessByName(k1, k2) ==
    \/ NameRank(k1[3]) < NameRank(k2[3])
    \/ k1[3] = k2[3] /\ k1[2] < k2[2]
KeyLess(k1, k2) ==
    \/ k1[2] < k2[2]
    \/ k1[2] = k2[2] /\ NameRank(k1[3]) < NameRank(k2[3])

RECURSIVE SortKeys(_)
SortKeys(S) ==
    IF S = {} THEN <<>>
    ELSE LET m == CHOOSE k \in S : \A o \in S \ {k} : KeyLess(k, o)
         IN  <<m>> \o SortKeys(S \ {m})

\* kv.list({prefix: ["responses"]}): every entry, in ascending key order.
KvList(store) ==
    LET keys == SortKeys(DOMAIN store)
    IN  [i \in 1..Len(keys) |-> [key |-> keys[i], value |-> store[keys[i]]]]

\* A set that replaces every record of the same name (a store keyed by name).
KvSetByName(store, key, value) ==
    [k \in {j \in DOMAIN store : j[3] # key[3]} \cup {key} |->
        IF k = key THEN value ELSE store[k]]

\* kv.set(key, value)
KvSet(store, key, value) ==
    [k \in DOMAIN store \cup {key} |-> IF k = key THEN value ELSE store[k]]

\* kv.delete(key), for each key of a set
KvDelete(store, keys) == [k \in DOMAIN store \ keys |-> store[k]]

EmptyStore == [k \in {} |-> 0]

\* The keys of the records of a name.
NamedKeys(store, n) == {k \in DOMAIN store : store[k].name = n}

\* The DELETE requests that may be in flight together.
Deleters == {"d1", "d2"}

\* A handler not running.  pending holds the keys of the deleteOps that have
\* not settled yet.  before, alone, found and removed are history: the
\* number of records of the name when the request arrived, whether no other
\* request has changed the store since, the keys a kv.delete was called
\* for, and the number of records those calls took out of the store.
IdleDelete ==
    [phase |-> "idle", name |-> "", cursor |-> Absent, pending |-> {},
     count |-> 0, rejected |-> FALSE, status |-> 0,
     before |-> 0, alone |-> TRUE, found |-> {}, removed |-> 0]

\* No chat request in flight.  body, yielded and signals are history: the
\* request body, the chunks the upstream has yielded and the terminal calls
\* made on the stream controller.  queue holds the frames enqueued and not
\* yet read, sent the frames the response has carried to the client.
IdleChat ==
    [phase |-> "idle", body |-> Absent, status |-> 0, calls |-> 0,
     upstream |-> "none", yielded |-> <<>>,
     stream |-> "none", closeRequested |-> FALSE,
     queue |-> <<>>, sent |-> <<>>, signals |-> <<>>]

Init ==
    /\ kv = EmptyStore
    /\ now = 1
    /\ last = [op |-> "none"]
    /\ del = [d \in Deleters |-> IdleDelete]
    /\ chat = IdleChat

\* The clock advances between requests (two requests may share a millisecond).
Tick ==
    /\ now < MaxTime
    /\ now' = now + 1
    /\ UNCHANGED <<kv, last, del, chat>>

\* ------------------------------------------------------- POST /responses
\* setOk: whether the store accepts the kv.set (it may be unavailable).
PostResponses(name, responses, setOk) ==
    /\ \/ Cardinality(DOMAIN kv) < MaxRecords
       \/ name # Absent /\ Key(now, Get(name)) \in DOMAIN kv
    /\ IF Falsy(responses) \/ TypeOf(responses) # "object"
       THEN /\ last' = [op |-> "write", status |-> 400, name |-> name,
                        responses |-> responses]
            /\ UNCHANGED <<kv, now>>
       ELSE IF name = Absent \/ ~setOk
       THEN \* kv.set throws (invalid key part, or store failure): catch
            /\ last' = [op |-> "write", status |-> 500, name |-> name,
                        responses |-> responses]
            /\ UNCHANGED <<kv, now>>
       ELSE LET response ==
                    [name |-> Get(name),
                     timestamp |-> now,
                     responses |->
                        [teachLLMs |-> OrEmpty(responses.teachLLMs),
                         syntheticStudents |-> OrEmpty(responses.syntheticStudents)]]
            IN  /\ kv' = KvSet(kv, Key(response.timestamp, Get(name)), response)
                /\ last' = [op |-> "write", status |-> 200, name |-> name,
                            responses |-> responses]
                /\ UNCHANGED now

\* -------------------------------------------------------- GET /responses
\* parseInt(url.searchParams.get(p) || default)
ParseInt(q, default) == IF q = Absent THEN default ELSE Get(q)

ParseParams(query) ==
    [limit |-> ParseInt(query.limit, DefaultLimit),
     offset |-> ParseInt(query.offset, DefaultOffset),
     since |-> ParseInt(query.since, DefaultSince),
     name |-> query.name]

\* params.since && ..., params.name && ...: 0 and "" are falsy
SinceSet(params) == params.since # 0
\* A listing that never applies the name filter.
NameSetNever(params) == FALSE
NameSet(params) == params.name # Absent /\ params.name # Some("")

Item(entry) ==
    [name |-> entry.value.name,
     timestamp |-> entry.value.timestamp,
     responses |-> entry.value.responses,
     key |-> entry.key]

\* A loop whose offset counts scanned entries, before the filters.
RECURSIVE ListLoopRawOffset(_, _, _, _, _, _)
ListLoopRawOffset(entries, i, params, skipped, included, responses) ==
    IF i > Len(entries)
    THEN [responses |-> responses, visited |-> Len(entries)]
    ELSE LET entry == entries[i]
             response == entry.value
         IN  IF skipped < params.offset
             THEN ListLoopRawOffset(entries, i + 1, params, skipped + 1, included,
                                    responses)
             ELSE IF SinceSet(params) /\ response.timestamp < params.since
             THEN ListLoopRawOffset(entries, i + 1, params, skipped, included,
                                    responses)
             ELSE IF NameSet(params) /\ response.name # Get(params.name)
             THEN ListLoopRawOffset(entries, i + 1, params, skipped, included,
                                    responses)
             ELSE IF included >= params.limit
             THEN [responses |-> responses, visited |-> i]
             ELSE ListLoopRawOffset(entries, i + 1, params, skipped, included + 1,
                                    Append(responses, Item(entry)))

\* The for-await loop over the scan, from entry i on.
RECURSIVE ListLoop(_, _, _, _, _, _)
ListLoop(entries, i, params, skipped, included, responses) ==
    IF i > Len(entries)
    THEN [responses |-> responses, visited |-> Len(entries)]
    ELSE LET entry == entries[i]
             response == entry.value
         IN  IF SinceSet(params) /\ response.timestamp < params.since
             THEN ListLoop(entries, i + 1, params, skipped, included, responses)
             ELSE IF NameSet(params) /\ response.name # Get(params.name)
             THEN ListLoop(entries, i + 1, params, skipped, included, responses)
             ELSE IF skipped < params.offset
             THEN ListLoop(entries, i + 1, params, skipped + 1, included, responses)
             ELSE IF included >= params.limit
             THEN [responses |-> responses, visited |-> i]
             ELSE ListLoop(entries, i + 1, params, skipped, included + 1,
                           Append(responses, Item(entry)))

ListBody(store, params) ==
    LET res == ListLoop(KvList(store), 1, params, 0, 0, <<>>)
    IN  [responses |-> res.responses,
         metadata |->
            [limit |-> params.limit,
             offset |-> params.offset,
             count |-> Len(res.responses),
             filters |->
                [since |-> IF params.since = 0 THEN Absent ELSE Some(params.since),
                 name |-> IF NameSet(params) THEN params.name ELSE Absent]]]

\* The number of entries the loop has taken from the scan when it ends.
ListVisited(store, params) ==
    ListLoop(KvList(store), 1, params, 0, 0, <<>>).visited

\* scanOk: whether the prefix scan of the store succeeds.
GetResponses(query, scanOk) ==
    LET params == ParseParams(query)
    IN  /\ last' = IF scanOk
                   THEN [op |-> "list", status |-> 200, params |-> params,
                         body |-> ListBody(kv, params),
                         visited |-> ListVisited(kv, params)]
                   ELSE [op |-> "list", status |-> 500, params |-> params]
        /\ UNCHANGED <<kv, now>>

Queries ==
    [limit : {Absent} \cup {Some(l) : l \in 0..MaxLimit},
     offset : {Absent} \cup {Some(o) : o \in 1..MaxOffset},
     since : {Absent} \cup {Some(t) : t \in 1..MaxTime},
     name : {Absent} \cup {Some(n) : n \in Names}]

\* -------------------------------------------------- GET /responses/stats
\* A minimum that keeps the value seen last.
MathMinLatest(a, b) == b
MathMin(a, b) == IF a < b THEN a ELSE b
MathMax(a, b) == IF a > b THEN a ELSE b

\* JSON.stringify of a number: a non-finite number is written as null.
JsonNumber(v) == IF v >= Infinity \/ v <= -Infinity THEN Absent ELSE Some(v)

InitialStats ==
    [total |-> 0, uniqueNames |-> {},
     timeRange |-> [first |-> Infinity, last |-> 0]]

\* A loop that counts submissions, not names, as participants.
RECURSIVE StatsLoopNoDedup(_, _, _)
StatsLoopNoDedup(entries, i, stats) ==
    IF i > Len(entries)
    THEN stats
    ELSE LET response == entries[i].value
         IN  StatsLoopNoDedup(entries, i + 1,
                 [total |-> stats.total + 1,
                  uniqueNames |-> stats.uniqueNames
                                    \cup {<<response.name, response.timestamp>>},
                  timeRange |->
                     [first |-> MathMin(stats.timeRange.first, response.timestamp),
                      last |-> MathMax(stats.timeRange.last, response.timestamp)]])

RECURSIVE StatsLoop(_, _, _)
StatsLoop(entries, i, stats) ==
    IF i > Len(entries)
    THEN stats
    ELSE LET response == entries[i].value
         IN  StatsLoop(entries, i + 1,
                 [total |-> stats.total + 1,
                  uniqueNames |-> stats.uniqueNames \cup {response.name},
                  timeRange |->
                     [first |-> MathMin(stats.timeRange.first, response.timestamp),
                      last |-> MathMax(stats.timeRange.last, response.timestamp)]])

\* A body that reports the running maximum as it stands, 0 included.
StatsBodySentinel(store) ==
    LET stats == StatsLoop(KvList(store), 1, InitialStats)
    IN  [total |-> stats.total,
         uniqueParticipants |-> Cardinality(stats.uniqueNames),
         timeRange |->
            [first |-> IF stats.timeRange.first = Infinity
                       THEN Absent ELSE Some(stats.timeRange.first),
             last |-> Some(stats.timeRange.last),
             durationMs |-> JsonNumber(stats.timeRange.last - stats.timeRange.first)]]

StatsBody(store) ==
    LET stats == StatsLoop(KvList(store), 1, InitialStats)
    IN  [total |-> stats.total,
         uniqueParticipants |-> Cardinality(stats.uniqueNames),
         timeRange |->
            [first |-> IF stats.timeRange.first = Infinity
                       THEN Absent ELSE Some(stats.timeRange.first),
             last |-> IF stats.timeRange.last = 0
                      THEN Absent ELSE Some(stats.timeRange.last),
             durationMs |-> JsonNumber(stats.timeRange.last - stats.timeRange.first)]]

GetStats(scanOk) ==
    /\ last' = IF scanOk
               THEN [op |-> "stats", status |-> 200, body |-> StatsBody(kv)]
               ELSE [op |-> "stats", status |-> 500]
    /\ UNCHANGED <<kv, now>>

\* ------------------------------------------------ DELETE /responses/:name
\* A sweep that deletes one record of the name, the first it meets.
RECURSIVE DeleteLoopFirstOnly(_, _, _, _, _)
DeleteLoopFirstOnly(entries, i, name, deleteOps, count) ==
    IF i > Len(entries)
    THEN [deleteOps |-> deleteOps, count |-> count]
    ELSE LET response == entries[i].value
         IN  IF response.name = name
             THEN [deleteOps |-> Append(deleteOps, entries[i].key), count |-> count + 1]
             ELSE DeleteLoopFirstOnly(entries, i + 1, name, deleteOps, count)

\* A sweep that counts every record it scans.
RECURSIVE DeleteLoopCountAll(_, _, _, _, _)
DeleteLoopCountAll(entries, i, name, deleteOps, count) ==
    IF i > Len(entries)
    THEN [deleteOps |-> deleteOps, count |-> count]
    ELSE LET response == entries[i].value
         IN  IF response.name = name
             THEN DeleteLoopCountAll(entries, i + 1, name,
                                     Append(deleteOps, entries[i].key), count + 1)
             ELSE DeleteLoopCountAll(entries, i + 1, name, deleteOps, count + 1)

\* A sweep that deletes every record it scans, whatever its name.
RECURSIVE DeleteLoopSweepAll(_, _, _, _, _)
DeleteLoopSweepAll(entries, i, name, deleteOps, count) ==
    IF i > Len(entries)
    THEN [deleteOps |-> deleteOps, count |-> count]
    ELSE DeleteLoopSweepAll(entries, i + 1, name,
                            Append(deleteOps, entries[i].key), count + 1)

\* The for-await loop: deleteOps holds the keys whose kv.delete was called.
RECURSIVE DeleteLoop(_, _, _, _, _)
DeleteLoop(entries, i, name, deleteOps, count) ==
    IF i > Len(entries)
    THEN [deleteOps |-> deleteOps, count |-> count]
    ELSE LET response == entries[i].value
         IN  IF response.name = name
             THEN DeleteLoop(entries, i + 1, name,
                             Append(deleteOps, entries[i].key), count + 1)
             ELSE DeleteLoop(entries, i + 1, name, deleteOps, count)

Range(seq) == {seq[i] : i \in 1..Len(seq)}

\* scanFail: Absent when the scan completes, Some(j) when it throws after
\* yielding j entries.  failed: the keys whose kv.delete rejects.  A delete
\* that was dispatched takes effect unless it rejects, whatever the response.
DeleteResponses(name, scanFail, failed) ==
    IF name = ""
    THEN /\ last' = [op |-> "delete", status |-> 400, name |-> name]
         /\ UNCHANGED <<kv, now>>
    ELSE LET all == KvList(kv)
             entries == IF scanFail = Absent THEN all
                        ELSE SubSeq(all, 1, Get(scanFail))
             loop == DeleteLoop(entries, 1, name, <<>>, 0)
             dispatched == Range(loop.deleteOps)
         IN  /\ failed \subseteq dispatched
             /\ kv' = KvDelete(kv, dispatched \ failed)
             /\ last' = IF scanFail = Absent /\ failed = {}
                        THEN [op |-> "delete", status |-> 200, name |-> name,
                              body |-> [success |-> TRUE, deleted |-> loop.count]]
                        ELSE [op |-> "delete", status |-> 500, name |-> name]
             /\ UNCHANGED now

\* The response has been sent: the next request is taken up.
Respond ==
    /\ last.op # "none"
    /\ last' = [op |-> "none"]
    /\ UNCHANGED <<kv, now, del, chat>>

Idle == last.op = "none"

\* Requests are handled one at a time: none interleaves with another.
Write ==
    /\ Idle
    /\ \E name \in BodyNames, responses \in BodyResponses, setOk \in BOOLEAN :
          PostResponses(name, responses, setOk)
    /\ UNCHANGED <<del, chat>>

List ==
    /\ Idle
    /\ \E query \in Queries, scanOk \in BOOLEAN : GetResponses(query, scanOk)
    /\ UNCHANGED <<del, chat>>

Stats ==
    /\ Idle
    /\ \E scanOk \in BOOLEAN : GetStats(scanOk)
    /\ UNCHANGED <<del, chat>>

DeleteByName ==
    /\ Idle
    /\ \E name \in Names, failed \in SUBSET DOMAIN kv,
          scanFail \in {Absent} \cup {Some(j) : j \in 0..Cardinality(DOMAIN kv)} :
          DeleteResponses(name, scanFail, failed)
    /\ UNCHANGED <<del, chat>>

Next ==
    \/ Tick
    \/ Respond
    \/ Write
    \/ List
    \/ Stats
    \/ DeleteByName

Spec == Init /\ [][Next]_vars

\* ------------------------------------------- requests that interleave
\* A handler is suspended at each await: at every read of its scan, and at
\* Promise.all until the deletes it dispatched have settled.  Other requests
\* run in between.

\* A read that starts at the cursor, not after it.
KvListBatchFromCursor(store, cursor) ==
    LET rest == SelectSeq(KvList(store),
                          LAMBDA e : cursor = Absent \/ ~KeyLess(e.key, Get(cursor)))
    IN  SubSeq(rest, 1, MathMin(BatchSize, Len(rest)))

\* One read of a prefix scan: the next BatchSize entries after the cursor,
\* of the store as it is now.
KvListBatch(store, cursor) ==
    LET rest == SelectSeq(KvList(store),
                          LAMBDA e : cursor = Absent \/ KeyLess(Get(cursor), e.key))
    IN  SubSeq(rest, 1, MathMin(BatchSize, Len(rest)))

\* The names the interleaved requests use.
ConcNames == {"a", "b"}

InFlight(d) == del[d].phase \in {"scanning", "awaiting"}

\* Another request than d has changed the store.
Disturbed(d) ==
    [e \in Deleters |->
        IF e # d /\ InFlight(e) THEN [del[e] EXCEPT !.alone = FALSE] ELSE del[e]]

\* POST /responses, handled while DELETE requests are in flight.
ConcWrite ==
    /\ \E name \in ConcNames : PostResponses(Some(name), EmptyObject, TRUE)
    /\ del' = Disturbed("")
    /\ UNCHANGED chat

\* DELETE /responses/:name arrives: the handler runs up to its first read.
DeleteArrive(d, name) ==
    /\ del[d].phase = "idle"
    /\ del' = [del EXCEPT ![d] =
                 IF name = ""
                 THEN [IdleDelete EXCEPT !.phase = "done", !.status = 400]
                 ELSE [IdleDelete EXCEPT !.phase = "scanning", !.name = name,
                                         !.before = Cardinality(NamedKeys(kv, name))]]
    /\ UNCHANGED <<kv, now, last, chat>>

\* One read of the scan and the loop over its entries: a kv.delete is
\* dispatched for each match.  A read that throws ends the handler with 500.
DeleteScan(d, scanOk) ==
    /\ del[d].phase = "scanning"
    /\ IF ~scanOk
       THEN del' = [del EXCEPT ![d].phase = "done", ![d].status = 500]
       ELSE LET batch == KvListBatch(kv, del[d].cursor)
                loop == DeleteLoop(batch, 1, del[d].name, <<>>, del[d].count)
            IN  del' = [del EXCEPT
                          ![d].count = loop.count,
                          ![d].pending = @ \cup Range(loop.deleteOps),
                          ![d].found = @ \cup Range(loop.deleteOps),
                          ![d].cursor = IF batch = <<>> THEN @
                                        ELSE Some(batch[Len(batch)].key),
                          ![d].phase = IF Len(batch) < BatchSize
                                       THEN "awaiting" ELSE "scanning"]
    /\ UNCHANGED <<kv, now, last, chat>>

\* A dispatched kv.delete takes effect.
DeleteCommit(d, k) ==
    /\ k \in del[d].pending
    /\ kv' = KvDelete(kv, {k})
    /\ del' = [(IF k \in DOMAIN kv THEN Disturbed(d) ELSE del)
                  EXCEPT ![d].pending = @ \ {k},
                         ![d].removed = IF k \in DOMAIN kv THEN @ + 1 ELSE @]
    /\ UNCHANGED <<now, last, chat>>

\* A dispatched kv.delete fails.
DeleteReject(d, k) ==
    /\ k \in del[d].pending
    /\ del' = [del EXCEPT ![d].pending = @ \ {k}, ![d].rejected = TRUE]
    /\ UNCHANGED <<kv, now, last, chat>>

\* await Promise.all(deleteOps) settles: rejected by the first delete that
\* fails (500), fulfilled when every delete has taken effect (200).
DeleteFinish(d) ==
    /\ del[d].phase = "awaiting"
    /\ del[d].rejected \/ del[d].pending = {}
    /\ del' = [del EXCEPT ![d].phase = "done",
                          ![d].status = IF del[d].rejected THEN 500 ELSE 200]
    /\ UNCHANGED <<kv, now, last, chat>>

\* The response has been sent and every dispatched delete has settled.
DeleteRespond(d) ==
    /\ del[d].phase = "done"
    /\ del[d].pending = {}
    /\ del' = [del EXCEPT ![d] = IdleDelete]
    /\ UNCHANGED <<kv, now, last, chat>>

\* One DELETE request at a time, interleaved with writes.
NextConc ==
    \/ Tick
    \/ ConcWrite
    \/ \E name \in ConcNames \cup {""} : DeleteArrive("d1", name)
    \/ \E scanOk \in BOOLEAN : DeleteScan("d1", scanOk)
    \/ \E k \in del["d1"].pending : DeleteCommit("d1", k)
    \/ \E k \in del["d1"].pending : DeleteReject("d1", k)
    \/ DeleteFinish("d1")
    \/ DeleteRespond("d1")

SpecConc == Init /\ [][NextConc]_vars

\* GET /responses and GET /responses/stats, handled while a DELETE request
\* is in flight: they read the store and leave it as it is.
ConcList ==
    /\ \E name \in {Absent} \cup {Some(n) : n \in ConcNames} :
          GetResponses([limit |-> Absent, offset |-> Absent, since |-> Absent,
                        name |-> name], TRUE)
    /\ UNCHANGED <<del, chat>>

ConcStats ==
    /\ GetStats(TRUE)
    /\ UNCHANGED <<del, chat>>

\* One DELETE request at a time, interleaved with writes, lists and stats.
NextMixed ==
    \/ NextConc
    \/ ConcList
    \/ ConcStats

SpecMixed == Init /\ [][NextMixed]_vars

\* Two DELETE requests, one of each handler, interleaved with each other and
\* with writes.
NextTwo ==
    \/ Tick
    \/ ConcWrite
    \/ \E d \in Deleters, name \in ConcNames : DeleteArrive(d, name)
    \/ \E d \in Deleters : DeleteScan(d, TRUE)
    \/ \E d \in Deleters : \E k \in del[d].pending : DeleteCommit(d, k)
    \/ \E d \in Deleters : DeleteFinish(d)

SpecTwo == Init /\ [][NextTwo]_vars

\* ------------------------------------------------------------ POST /chat
\* The handler is suspended while it reads the request body, while it opens
\* the upstream completion call and at every read of the upstream stream;
\* the response reads the outbound stream frame by frame.  The client reads
\* the response to its end.

\* The messages member of a chat body, by JavaScript type; an array has a
\* number of turns.
ChatMessages ==
    {[type |-> t, turns |-> 0] : t \in {"undefined", "null", "string", "object"}}
        \cup {[type |-> "array", turns |-> n] : n \in 0..1}

\* A request body: text that is not JSON (Absent), or an object.
ChatBodies == {Absent} \cup {Some(m) : m \in ChatMessages}

\* A check that takes any object for an array.
IsArrayOrObject(v) == v.type \in {"array", "object"}
\* Array.isArray(messages)
IsArray(v) == v.type = "array"

\* The chunks of the upstream stream: without a choice, with a delta that
\* has no content, with empty content, with text.
FragmentTexts == {"Hi", "!"}
Chunks ==
    {[choices |-> <<>>]}
        \cup {[choices |-> <<[delta |-> [content |-> c]]>>] :
                c \in {Absent, Some("")} \cup {Some(t) : t \in FragmentTexts}}

\* chunk.choices[0]?.delta?.content
ContentOf(chunk) ==
    IF Len(chunk.choices) = 0 THEN Absent ELSE chunk.choices[1].delta.content

\* A test that forwards every content that is present, the empty one too.
HasContentField(content) == content # Absent
\* if (content)
HasContent(content) == content # Absent /\ Get(content) # ""

\* encoder.encode(text): the bytes of the text.
Encode(text) == [utf8 |-> text]
ContentFrame(content) == Encode("data: " \o content \o "\n\n")
DoneFrame == Encode("data: [DONE]\n\n")

\* The controller of a ReadableStream accepts a chunk or a close while the
\* stream is readable and no close has been requested.
CanCloseOrEnqueue(c) == c.stream = "readable" /\ ~c.closeRequested

\* controller.enqueue(frame), where it is accepted
ControllerEnqueue(c, frame) == [c EXCEPT !.queue = Append(@, frame)]

\* controller.close(): the stream closes once its queue has been read.  On
\* a stream that is closed or errored the call throws; the rejection of
\* start() that follows leaves such a stream as it is.
ControllerClose(c) ==
    LET called == [c EXCEPT !.signals = Append(@, "close")]
    IN  IF ~CanCloseOrEnqueue(c) THEN called
        ELSE IF c.queue = <<>> THEN [called EXCEPT !.stream = "closed"]
        ELSE [called EXCEPT !.closeRequested = TRUE]

\* An error call that leaves the stream readable.
ControllerErrorIgnored(c) == [c EXCEPT !.signals = Append(@, "error")]
\* controller.error(error): the stream is errored and its queue dropped; on
\* a stream that is not readable the call does nothing.
ControllerError(c) ==
    LET called == [c EXCEPT !.signals = Append(@, "error")]
    IN  IF c.stream # "readable" THEN called
        ELSE [called EXCEPT !.stream = "errored", !.queue = <<>>]

\* A start() that lets the error go: no catch block and no finally block.
CatchFinallySkipped(c) == c
\* catch (error) { controller.error(error) } finally { controller.close() }
CatchFinally(c) == ControllerClose(ControllerError(c))

\* POST /chat arrives: the handler runs up to the read of the body.
ChatArrive(body) ==
    /\ chat.phase = "idle"
    /\ chat' = [IdleChat EXCEPT !.phase = "validating", !.body = body]
    /\ UNCHANGED <<kv, now, last, del>>

\* The body has been read: it is validated and the upstream call is made.
ChatValidate ==
    /\ chat.phase = "validating"
    /\ chat' = IF chat.body = Absent
               THEN \* body.json() throws: catch
                    [chat EXCEPT !.phase = "failed", !.status = 500]
               ELSE IF Falsy(Get(chat.body)) \/ ~IsArray(Get(chat.body))
               THEN [chat EXCEPT !.phase = "failed", !.status = 400]
               ELSE [chat EXCEPT !.phase = "streaming", !.upstream = "opening",
                                 !.calls = @ + 1]
    /\ UNCHANGED <<kv, now, last, del>>

\* openai.chat.completions.create settles.  created: the call returns a
\* stream; the outbound stream is built, start() runs up to its first read
\* and the stream becomes the body of a 200 response.  Otherwise the call
\* throws and the catch block answers 500.
ChatOpen(created) ==
    /\ chat.phase = "streaming"
    /\ chat.upstream = "opening"
    /\ chat' = IF created
               THEN [chat EXCEPT !.upstream = "open", !.stream = "readable",
                                 !.status = 200]
               ELSE [chat EXCEPT !.phase = "failed", !.upstream = "errored",
                                 !.status = 500]
    /\ UNCHANGED <<kv, now, last, del>>

\* The upstream yields a chunk: one turn of the for-await loop.
ChatChunk(chunk) ==
    /\ chat.upstream = "open"
    /\ Len(chat.yielded) < MaxFragments
    /\ LET content == ContentOf(chunk)
           read == [chat EXCEPT !.yielded = Append(@, chunk)]
       IN  chat' = IF ~HasContent(content) THEN read
                   ELSE IF CanCloseOrEnqueue(read)
                   THEN ControllerEnqueue(read, ContentFrame(Get(content)))
                   ELSE \* enqueue throws
                        [CatchFinally(read) EXCEPT !.phase = "failed",
                                                   !.upstream = "abandoned"]
    /\ UNCHANGED <<kv, now, last, del>>

\* The upstream ends: the loop is left, the sentinel is enqueued and the
\* finally block closes the stream.
ChatEnd ==
    /\ chat.upstream = "open"
    /\ LET ended == [chat EXCEPT !.upstream = "ended"]
       IN  chat' = IF CanCloseOrEnqueue(ended)
                   THEN [ControllerClose(ControllerEnqueue(ended, DoneFrame))
                            EXCEPT !.phase = "completed"]
                   ELSE [CatchFinally(ended) EXCEPT !.phase = "failed"]
    /\ UNCHANGED <<kv, now, last, del>>

\* The upstream throws while it is read: catch, then finally.
ChatError ==
    /\ chat.upstream = "open"
    /\ chat' = [CatchFinally(chat) EXCEPT !.phase = "failed",
                                          !.upstream = "errored"]
    /\ UNCHANGED <<kv, now, last, del>>

\* The response reads the next frame of the stream and sends it.
ChatPull ==
    /\ chat.stream = "readable"
    /\ chat.queue # <<>>
    /\ chat' = [chat EXCEPT
                  !.sent = Append(@, Head(chat.queue)),
                  !.queue = Tail(@),
                  !.stream = IF chat.closeRequested /\ Tail(chat.queue) = <<>>
                             THEN "closed" ELSE @]
    /\ UNCHANGED <<kv, now, last, del>>

\* The response is over: the next request is taken up.
ChatRespond ==
    /\ chat.phase \in {"completed", "failed"}
    /\ chat.stream \in {"none", "closed", "errored"}
    /\ chat' = IdleChat
    /\ UNCHANGED <<kv, now, last, del>>

NextChat ==
    \/ \E body \in ChatBodies : ChatArrive(body)
    \/ ChatValidate
    \/ \E created \in BOOLEAN : ChatOpen(created)
    \/ \E chunk \in Chunks : ChatChunk(chunk)
    \/ ChatEnd
    \/ ChatError
    \/ ChatPull
    \/ ChatRespond

SpecChat == Init /\ [][NextChat]_vars

\* Every await of the handler settles, the upstream call among them, and the
\* response keeps reading its body.
SpecChatLive ==
    /\ SpecChat
    /\ WF_vars(ChatValidate)
    /\ WF_vars(\E created \in BOOLEAN : ChatOpen(created))
    /\ WF_vars((\E chunk \in Chunks : ChatChunk(chunk)) \/ ChatEnd \/ ChatError)
    /\ WF_vars(ChatPull)

\* ================================================================= claims
Listed == last.op = "list" /\ last.status = 200
Counted == last.op = "stats" /\ last.status = 200
Deleted == last.op = "delete" /\ last.status = 200
Written == last.op = "write" /\ last.status = 200

StoredNames == {kv[k].name : k \in DOMAIN kv}

Unfiltered ==
    /\ Listed
    /\ last.params.since = 0
    /\ last.params.name = Absent
    /\ last.params.offset = 0
    /\ last.params.limit >= Cardinality(DOMAIN kv)

\* C1: a listing with no since and no name filter, offset 0 and a limit of
\* at least the number of stored records returns every stored record exactly
\* once, in non-decreasing timestamp order, whatever the names are.
ListReturnsAllInTimestampOrder ==
    Unfiltered =>
        LET r == last.body.responses
        IN  /\ Len(r) = Cardinality(DOMAIN kv)
            /\ \A k \in DOMAIN kv :
                  /\ Cardinality({i \in 1..Len(r) : r[i].key = k}) = 1
                  /\ \E i \in 1..Len(r) :
                        /\ r[i].key = k
                        /\ r[i].name = kv[k].name
                        /\ r[i].timestamp = kv[k].timestamp
                        /\ r[i].responses = kv[k].responses
            /\ \A i, j \in 1..Len(r) : i < j => r[i].timestamp <= r[j].timestamp

\* Three records listed, an earlier one with the greater name.
ListedAgainstNameOrder ==
    /\ Unfiltered
    /\ Len(last.body.responses) = 3
    /\ \E i, j \in 1..3 :
          /\ last.body.responses[i].timestamp < last.body.responses[j].timestamp
          /\ NameRank(last.body.responses[i].name) > NameRank(last.body.responses[j].name)

PassesFilters(record, params) ==
    /\ record.timestamp >= params.since
    /\ params.name \in {Absent, Some("")} \/ record.name = Get(params.name)

Page(seq, offset, limit) ==
    LET first == offset + 1
        final == IF offset + limit < Len(seq) THEN offset + limit ELSE Len(seq)
    IN  IF first > final THEN <<>> ELSE [i \in 1..(final - first + 1) |-> seq[first + i - 1]]

ListHonoursEveryFilter ==
    Listed =>
        \A i \in 1..Len(last.body.responses) :
            /\ last.body.responses[i].timestamp >= last.params.since
            /\ last.params.name # Absent =>
                  last.body.responses[i].name = Get(last.params.name)

\* C3 as amended: the same for every T and every non-empty name n (an empty
\* name sets no filter, and the metadata reports the name filter as null).
ListHonoursFilters ==
    Listed =>
        /\ \A i \in 1..Len(last.body.responses) :
              /\ last.body.responses[i].timestamp >= last.params.since
              /\ last.params.name \notin {Absent, Some("")} =>
                    last.body.responses[i].name = Get(last.params.name)
        /\ last.params.name = Some("") => last.body.metadata.filters.name = Absent

\* A listing by name and since that returns a record and leaves out a record
\* of another name and an earlier record of the same name.
ListedFiltered ==
    /\ Listed
    /\ last.params.name = Some("a")
    /\ last.params.since = 2
    /\ Len(last.body.responses) >= 1
    /\ \E k \in DOMAIN kv : kv[k].name = "a" /\ kv[k].timestamp < 2
    /\ \E k \in DOMAIN kv : kv[k].name # "a" /\ kv[k].timestamp >= 2

ListAfter(n) ==
    ListBody(kv, ParseParams([limit |-> Absent, offset |-> Absent,
                              since |-> Absent, name |-> Some(n)]))

\* C4: after a successful deleteByName(x), with no other request in between,
\* list({name: x}) is empty, however many records named x there were.
DeleteThenListIsEmpty ==
    Deleted =>
        /\ ListAfter(last.name).responses = <<>>
        /\ ListAfter(last.name).metadata.count = 0

\* A delete that removed two records and left a record of another name.
DeletedSeveral ==
    /\ Deleted
    /\ last.body.deleted >= 2
    /\ kv # EmptyStore

Answered(d) == del[d].phase = "done" /\ del[d].status = 200

\* C5 as claimed: the deleted count that deleteByName(x) returns is the
\* number of records named x in the store immediately before the call.
DeleteCountsRecordsBeforeCall ==
    \A d \in Deleters : Answered(d) => del[d].count = del[d].before

\* C5 as amended: the same, when no other request changes the store between
\* the arrival of the call and its response (the count is of the records the
\* scan finds, and a write that lands before a read of the scan is found).
DeleteCountsRecordsBeforeCallAlone ==
    \A d \in Deleters :
        (Answered(d) /\ del[d].alone) => del[d].count = del[d].before

\* An undisturbed delete of two records, over more than one read.
DeletedTwoAlone ==
    \E d \in Deleters :
        /\ Answered(d)
        /\ del[d].alone
        /\ del[d].count = 2
        /\ Cardinality(DOMAIN kv) = 1

\* C6 as claimed: when the scan of deleteByName(x) completes, the response
\* reports as deleted the number of matching records the scan found, also
\* when some of the dispatched deletes fail.
DeleteReportsCountDespiteFailures ==
    [][\A name \in Names \ {""}, failed \in SUBSET DOMAIN kv :
          (Idle /\ last'.op = "delete" /\ DeleteResponses(name, Absent, failed)) =>
              /\ last'.status = 200
              /\ last'.body.deleted = Cardinality(NamedKeys(kv, name))]_vars

\* C7: stats() on a store with no records returns total 0, uniqueParticipants
\* 0 and both timeRange.first and timeRange.last absent (null).
StatsOfEmptyStore ==
    (Counted /\ DOMAIN kv = {}) =>
        /\ last.body.total = 0
        /\ last.body.uniqueParticipants = 0
        /\ last.body.timeRange.first = Absent
        /\ last.body.timeRange.last = Absent

\* Statistics of an empty store.
CountedEmptyStore ==
    /\ Counted
    /\ DOMAIN kv = {}
    /\ now > 1

\* C8: with no request interleaving, stats().total is the number of records
\* stored and stats().uniqueParticipants the number of distinct names.
StatsCountsRecordsAndNames ==
    Counted =>
        /\ last.body.total = Cardinality(DOMAIN kv)
        /\ last.body.uniqueParticipants = Cardinality(StoredNames)

\* Three records of two names.
CountedThreeOfTwo ==
    /\ Counted
    /\ last.body.total = 3
    /\ last.body.uniqueParticipants = 2

IsStructured(v) == v.type = "object"

\* C9: a write whose answers are missing, null or not an object fails with
\* 400 and leaves the store unchanged; a write with an empty answers object
\* (a valid name, the store available) succeeds and stores both answer
\* fields as the empty string.
WriteValidatesAnswers ==
    [][/\ (Idle /\ last'.op = "write") =>
            /\ ~IsStructured(last'.responses) => (last'.status = 400 /\ kv' = kv)
            /\ IsStructured(last'.responses) => last'.status # 400
            /\ last'.status # 200 => kv' = kv
       /\ \A n \in Names :
            (Idle /\ last'.op = "write" /\ PostResponses(Some(n), EmptyObject, TRUE)) =>
                /\ last'.status = 200
                /\ Key(now, n) \in DOMAIN kv'
                /\ kv'[Key(now, n)].responses =
                      [teachLLMs |-> "", syntheticStudents |-> ""]]_vars

\* A write with an empty answers object has succeeded.
WrittenEmptyAnswers ==
    /\ Written
    /\ last.responses = EmptyObject
    /\ \E k \in DOMAIN kv :
          /\ kv[k].name = Get(last.name)
          /\ kv[k].responses = [teachLLMs |-> "", syntheticStudents |-> ""]

WriteStep == Idle /\ last'.op = "write" /\ last'.status = 200

\* C10 as claimed: every successful write creates exactly one new record and
\* leaves every stored record unchanged; a stored record never changes and
\* disappears only through deleteByName.
WriteAlwaysAddsOneRecord ==
    [][/\ WriteStep =>
            Cardinality(DOMAIN kv') = Cardinality(DOMAIN kv) + 1
       /\ \A k \in DOMAIN kv :
            /\ k \in DOMAIN kv' => kv'[k] = kv[k]
            /\ k \notin DOMAIN kv' => last'.op = "delete"]_vars

\* C10 as amended: a successful write stores one record under the key of
\* its timestamp and name: a new record, unless a record of the same name
\* was written in the same millisecond, which it replaces; every other
\* record is unchanged, and a record disappears only through deleteByName.
WriteAddsOrReplacesOneRecord ==
    [][/\ WriteStep =>
            LET key == Key(now, Get(last'.name))
            IN  /\ DOMAIN kv' = DOMAIN kv \cup {key}
                /\ kv'[key].name = Get(last'.name)
                /\ kv'[key].timestamp = now
                /\ \A k \in DOMAIN kv \ {key} : kv'[k] = kv[k]
       /\ \A k \in DOMAIN kv :
            /\ (k \in DOMAIN kv' /\ kv'[k] # kv[k]) =>
                  (WriteStep /\ k = Key(now, Get(last'.name)))
            /\ k \notin DOMAIN kv' =>
                  (Idle /\ last'.op = "delete" /\ kv[k].name = last'.name)]_vars

\* A second write by a name that has a record already.
WrittenAgainBySameName ==
    /\ Written
    /\ \E k1, k2 \in DOMAIN kv :
          k1 # k2 /\ kv[k1].name = Get(last.name) /\ kv[k2].name = Get(last.name)

\* C11: every stored record is stored under the key ("responses", t, n)
\* where t is the record's own timestamp and n its own name.
RecordsStoredUnderOwnKey ==
    \A k \in DOMAIN kv :
        /\ Len(k) = 3
        /\ k[1] = "responses"
        /\ k[2] = kv[k].timestamp
        /\ k[3] = kv[k].name

\* Records of two names and two milliseconds are stored, one just written.
WrittenSecondNameLater ==
    /\ Written
    /\ \E k1, k2 \in DOMAIN kv :
          /\ k1[2] # k2[2]
          /\ k1[3] # k2[3]
          /\ kv[k2].name = Get(last.name)


\* The place in the scan of the entry a listed item was built from.
ScanIndex(item) ==
    CHOOSE i \in 1..Cardinality(DOMAIN kv) : KvList(kv)[i].key = item.key

\* C15: list stops scanning as soon as limit results have been collected: no
\* entry after the one that became the limit-th result is visited, even
\* when no later entry would pass the filters.
ListStopsAtLimitthResult ==
    (/\ Listed
     /\ last.params.limit >= 1
     /\ Len(last.body.responses) = last.params.limit) =>
        last.visited <= ScanIndex(last.body.responses[last.params.limit])


Timestamps == {kv[k].timestamp : k \in DOMAIN kv}
Earliest == CHOOSE t \in Timestamps : \A u \in Timestamps : t <= u
Latest == CHOOSE t \in Timestamps : \A u \in Timestamps : t >= u

\* C16: on a non-empty store stats reports first as the least timestamp of
\* the records, last as the greatest and durationMs as last minus first;
\* first and last are absent only when the store is empty, and then both.
StatsReportsTimeRange ==
    Counted =>
        LET timeRange == last.body.timeRange
        IN  /\ DOMAIN kv # {} =>
                  /\ timeRange.first = Some(Earliest)
                  /\ timeRange.last = Some(Latest)
                  /\ timeRange.durationMs = Some(Latest - Earliest)
            /\ timeRange.first = Absent <=> DOMAIN kv = {}
            /\ timeRange.last = Absent <=> DOMAIN kv = {}

\* Records of two milliseconds, the later one scanned last.
CountedOverTwoMilliseconds ==
    /\ Counted
    /\ Cardinality(DOMAIN kv) >= 2
    /\ last.body.timeRange.durationMs = Some(MaxTime - 1)


\* The text a chunk carries, empty when it carries none.
TextOf(chunk) ==
    IF chunk.choices = <<>> \/ chunk.choices[1].delta.content = Absent
    THEN ""
    ELSE Get(chunk.choices[1].delta.content)

\* The frames of the chunks that carry text, in the order of the chunks.
RECURSIVE TextFrames(_)
TextFrames(chunks) ==
    IF chunks = <<>> THEN <<>>
    ELSE IF TextOf(Head(chunks)) = "" THEN TextFrames(Tail(chunks))
    ELSE <<[utf8 |-> "data: " \o TextOf(Head(chunks)) \o "\n\n"]>>
            \o TextFrames(Tail(chunks))

\* The frames the stream has been given and has not dropped.
Outbound == chat.sent \o chat.queue

\* C12: for a valid chat request whose upstream yields fragments and then
\* ends, the outbound stream carries one "data: <text>" frame per fragment
\* with non-empty text, in the order of the fragments and none for a
\* fragment without text, then one "data: [DONE]" frame as its last frame,
\* and is closed once that frame has been read.
ChatRelaysFragmentsThenDone ==
    /\ chat.upstream = "open" =>
          /\ Outbound = TextFrames(chat.yielded)
          /\ chat.stream = "readable"
          /\ ~chat.closeRequested
    /\ chat.upstream = "ended" =>
          /\ Outbound = TextFrames(chat.yielded) \o <<[utf8 |-> "data: [DONE]\n\n"]>>
          /\ IF chat.queue = <<>>
             THEN chat.stream = "closed"
             ELSE chat.stream = "readable" /\ chat.closeRequested

\* Two texts with a fragment without text between them have been relayed
\* and the stream is closed.
ChatRelayedAroundEmptyFragment ==
    /\ chat.upstream = "ended"
    /\ chat.stream = "closed"
    /\ Len(chat.yielded) = 3
    /\ TextOf(chat.yielded[1]) # ""
    /\ chat.yielded[2].choices # <<>>
    /\ chat.yielded[2].choices[1].delta.content = Some("")
    /\ TextOf(chat.yielded[3]) \notin {"", TextOf(chat.yielded[1])}
    /\ Len(chat.sent) = 3


\* The body of the request has been read and validated.
ChatValidated == chat.phase \in {"streaming", "completed", "failed"}

\* C13: a chat request whose messages field is missing or is not an array is
\* answered 400, and no upstream completion call is made for it.
ChatRejectsNonArrayMessages ==
    (/\ ChatValidated
     /\ chat.body # Absent
     /\ Get(chat.body).type # "array") =>
        /\ chat.phase = "failed"
        /\ chat.status = 400
        /\ chat.calls = 0
        /\ chat.upstream = "none"
        /\ chat.stream = "none"

\* A request whose messages member is an object that is not an array has
\* been refused.
ChatRefusedObjectMessages ==
    /\ chat.phase = "failed"
    /\ chat.status = 400
    /\ chat.body = Some([type |-> "object", turns |-> 0])


\* C14: when the upstream errors after the outbound stream has been opened,
\* the stream is ended by an error signal and not by a normal close, and no
\* frame is emitted after the error: no "data: [DONE]" follows a failure.
ChatFailureErrorsStream ==
    [][/\ (chat.upstream = "open" /\ chat'.upstream = "errored") =>
             /\ chat'.stream = "errored"
             /\ ~chat'.closeRequested
             /\ Head(chat'.signals) = "error"
             /\ chat'.sent = chat.sent
             /\ chat'.queue = <<>>
       /\ (chat.upstream = "errored" /\ chat.stream # "none" /\ chat' # IdleChat) =>
             /\ chat'.stream = "errored"
             /\ chat'.sent = chat.sent
             /\ chat'.queue = <<>>]_vars

\* The upstream has failed after a frame was sent and another enqueued.
ChatFailedMidStream ==
    /\ chat.upstream = "errored"
    /\ chat.stream = "errored"
    /\ Len(chat.sent) = 1
    /\ Len(TextFrames(chat.yielded)) = 2


\* C19: for a chat request that has opened an outbound stream the controller
\* receives one terminal signal, a close or an error and never both: close
\* is not called on a stream that has been errored.
ChatSignalsControllerOnce ==
    /\ Len(chat.signals) <= 1
    /\ (chat.stream # "none" /\ chat.phase \in {"completed", "failed"}) =>
          chat.signals \in {<<"close">>, <<"error">>}


\* The transitions of a request: Validating -> Streaming -> Completed or
\* Failed, Validating -> Failed, and none out of Completed or Failed but
\* the end of the request.
ChatTransitions ==
    {<<"idle", "validating">>,
     <<"validating", "streaming">>, <<"validating", "failed">>,
     <<"streaming", "completed">>, <<"streaming", "failed">>}

ChatOver == chat.phase \in {"completed", "failed"}

\* C18: a chat request moves Validating -> Streaming -> Completed or Failed
\* (or Validating -> Failed); when the upstream call ends or errors in the
\* end, the request reaches Completed or Failed, and an outbound stream it
\* has opened has then been given a close or an error signal and comes to
\* its end; nothing leaves Completed or Failed while the request lasts.
ChatReachesCompletedOrFailed ==
    /\ [][\/ chat'.phase = chat.phase
          \/ <<chat.phase, chat'.phase>> \in ChatTransitions
          \/ ChatOver /\ chat' = IdleChat]_vars
    /\ [](ChatOver /\ chat.stream # "none" => chat.signals # <<>>)
    /\ (chat.phase \in {"validating", "streaming"}) ~> ChatOver
    /\ (chat.stream = "readable") ~> (chat.stream \in {"closed", "errored"})

\* The upstream ended without a chunk: the request is Completed and its
\* stream, the sentinel read, is closed.
ChatCompletedEmptyUpstream ==
    /\ chat.phase = "completed"
    /\ chat.yielded = <<>>
    /\ chat.sent = <<DoneFrame>>
    /\ chat.stream = "closed"


Reported(d) == IF Answered(d) THEN del[d].count ELSE 0
ReportedSum == Reported("d1") + Reported("d2")
RemovedSum == del["d1"].removed + del["d2"].removed

\* C20 as claimed: under any interleaving of deleteByName requests and
\* writes no record is counted as deleted by more than one request: the sum
\* of the counts the successful requests report never exceeds the number of
\* records removed from the store.
DeleteCountsSumToRemoved == ReportedSum <= RemovedSum

\* C20 as amended: each request counts a record once, and only records of
\* its own name that its scan read; requests for different names count no
\* record twice between them, and the sum of their counts does not exceed
\* the number of records removed.
DeleteCountsOwnFindingsOnce ==
    /\ \A d \in Deleters :
          /\ del[d].count = Cardinality(del[d].found)
          /\ \A k \in del[d].found : k[3] = del[d].name
    /\ del["d1"].name # del["d2"].name =>
          /\ del["d1"].found \cap del["d2"].found = {}
          /\ ReportedSum <= RemovedSum

\* Two requests for different names have overlapped and each has reported
\* a record.
DeletedTwoNamesTogether ==
    /\ Answered("d1") /\ Answered("d2")
    /\ del["d1"].name # del["d2"].name
    /\ del["d1"].count >= 1 /\ del["d2"].count >= 1
    /\ ~del["d1"].alone /\ ~del["d2"].alone


====
